---- MODULE Spec2Model ----
(***************************************************************************)
(* flaky-finder: model of src/main.rs.                                     *)
(*                                                                         *)
(* main() builds a FlakyFinder, rejects runs < 1 and calls run().  run()   *)
(* executes the command once (warm-up), submits `runs` jobs to a thread    *)
(* pool of nb_threads threads, every job sending the Output of one child   *)
(* process on a crossbeam channel bounded(runs), and drains the channel    *)
(* on the main thread.                                                     *)
(*                                                                         *)
(* An Output is modelled by the facts the code looks at: the exit status   *)
(* (ok), and whether the captured stdout / stderr bytes are valid UTF-8    *)
(* (out, err), which is what str::from_utf8 decides.  id is the number of  *)
(* the job that produced it (0 for the warm-up); the code never reads it.  *)
(* The builds modelled unwind on panic (the default profile): a panic in   *)
(* a pool thread ends that job only, a panic on the main thread ends the   *)
(* process with status 101.  Writes to the terminal are taken to succeed.  *)
(***************************************************************************)
EXTENDS Integers, Sequences, FiniteSets, TLC

\* Bounds of the model.
MaxRuns == 3
MaxThreads == 2
\* Bound on runs where termination is checked.
MaxRunsLive == 2

VARIABLES
    runs,                   \* FlakyFinder.runs
    nb_threads,             \* FlakyFinder.nb_threads
    should_continue,        \* FlakyFinder.should_continue
    show_errors_as_summary, \* FlakyFinder.show_errors_as_summary
    outputs,                \* FlakyFinder.outputs
    pc,                     \* position of the main thread
    warm,                   \* what the warm-up invocation did
    warmups,                \* warm-up invocations that ran to completion
    submitted,              \* iterations of `for _ in 0..runs` done
    queue,                  \* jobs waiting in the thread pool, FIFO
    tstate,                 \* per job: where its closure is
    result,                 \* per job: the Output of its child process
    chan,                   \* messages buffered in the channel
    sx,                     \* the sender handle `sx` of run() is alive
    rx,                     \* the receiver handle `rx` is alive
    error_counter,          \* local error_counter of run()
    pos,                    \* position of the progress bar
    consumed,               \* Outputs yielded by rx.iter(), in order
    live,                   \* bodies printed by the drain loop
    summary,                \* bodies printed by show_errors
    verdict,                \* value run() returned
    exit_code               \* exit status of the process

vars == <<runs, nb_threads, should_continue, show_errors_as_summary, outputs,
          pc, warm, warmups, submitted, queue, tstate, result, chan, sx,
          rx, error_counter, pos, consumed, live, summary, verdict, exit_code>>

config == <<runs, nb_threads, should_continue, show_errors_as_summary>>

Tasks == 1 .. runs

\* std::process::Output of a completed child, as far as the code reads it.
Output(i, s, o, e) == [id |-> i, ok |-> s, out |-> o, err |-> e]

\* The Outputs a child process can produce.  The bytes of a successful
\* invocation are never read by the program, so one representative is kept.
Outcomes(i) ==
    {Output(i, TRUE, TRUE, TRUE)} \cup
    {Output(i, FALSE, o, e) : o \in BOOLEAN, e \in BOOLEAN}

NoOutput == Output(0, TRUE, TRUE, TRUE)

\* Mutant of Failing: every result is taken for a failure.
Failing_always(r) == TRUE

\* Mutant of Failing: the negation of success() is lost.
Failing_mut(r) == r.ok

\* ExitStatus::success() negated, the test of the drain loop.
Failing(r) == ~r.ok

\* Mutant of MainRejects: the comparison is off by one.
MainRejects_mut == runs < 0

\* The check main() makes before run().
MainRejects == runs < 1

\* Mutant of WarmUpKeeps: a failing warm-up is recorded as a failure.
WarmUpKeeps_mut(r, outs) == IF r.ok THEN outs ELSE Append(outs, r)

\* `let _ = Command::new("sh")....output()`: the warm-up Output is dropped.
WarmUpKeeps(r, outs) == outs

\* utils::fstdout / utils::fstderr: write the raw bytes of one stream.
fstdout(r) == <<r.id, "stdout">>
fstderr(r) == <<r.id, "stderr">>

\* pb.println of the two from_utf8'd streams in the drain loop.
LiveStdout(r) == <<r.id, "stdout">>
LiveStderr(r) == <<r.id, "stderr">>

RECURSIVE ShowBodies(_)
\* The `for error_output in self.outputs.iter()` loop of show_errors.
ShowBodies(outs) ==
    IF outs = <<>> THEN <<>>
    ELSE <<fstdout(Head(outs)), fstderr(Head(outs))>> \o ShowBodies(Tail(outs))

\* Mutant of show_errors: called whatever the mode.
show_errors_mut(outs) == ShowBodies(outs)

\* show_errors is called only in summary mode.
show_errors(outs) == IF show_errors_as_summary THEN ShowBodies(outs) ELSE <<>>

\* Ok(self.outputs.is_empty())
RunVerdict(outs) == outs = <<>>

\* Mutant of Push: the new failure is put in front.
Push_mut(outs, r) == <<r>> \o outs

\* self.outputs.push(recv_output.clone())
Push(outs, r) == Append(outs, r)

\* Mutant of BreakOnFailure: the test of should_continue is inverted.
BreakOnFailure_mut == should_continue

\* `if !self.should_continue { break; }`
BreakOnFailure == ~should_continue

\* Mutant of Capacity: the buffer is one slot short.
Capacity_mut == runs - 1

\* crossbeam_channel::bounded(runs as usize)
Capacity == runs

\* Mutant of HoldsSender: the sender of a job whose launch panicked leaks.
HoldsSender_mut(t) == tstate[t] \in {"queued", "running", "ready", "nolaunch"}

\* A job holds its clone of sx from pool.execute until its closure ends.
HoldsSender(t) == tstate[t] \in {"queued", "running", "ready"}

\* Jobs whose child process has been spawned and whose closure has not ended.
Active == {t \in Tasks : tstate[t] \in {"running", "ready"}}

\* Mutant of ThreadFree: the pool runs one job more than it has threads.
ThreadFree_mut == Cardinality(Active) <= nb_threads

\* threadpool::ThreadPool::new(nb_threads): a job starts when one of the
\* nb_threads threads is idle.
ThreadFree == Cardinality(Active) < nb_threads

\* Mutant of Disconnected: only the sender of run() is looked at.
Disconnected_mut == ~sx

\* Every Sender is dropped: rx.iter() ends once the buffer is empty.
Disconnected == ~sx /\ \A t \in Tasks : ~HoldsSender(t)

ProcessAlive == pc # "exited"

\* The FlakyFinder that FlakyFinderBuilder::build() hands to main(), with at
\* most n runs, before main() has done anything.
InitUpTo(n) ==
    /\ runs \in 0 .. n
    /\ nb_threads \in 1 .. MaxThreads
    /\ should_continue \in BOOLEAN
    /\ show_errors_as_summary \in BOOLEAN
    /\ outputs = <<>>
    /\ pc = "main"
    /\ warm = "none"
    /\ warmups = 0
    /\ submitted = 0
    /\ queue = <<>>
    /\ tstate = [t \in Tasks |-> "none"]
    /\ result = [t \in Tasks |-> NoOutput]
    /\ chan = <<>>
    /\ sx = FALSE
    /\ rx = FALSE
    /\ error_counter = 0
    /\ pos = 0
    /\ consumed = <<>>
    /\ live = <<>>
    /\ summary = <<>>
    /\ verdict = "none"
    /\ exit_code = -1

Init == InitUpTo(MaxRuns)

InitLive == InitUpTo(MaxRunsLive)

\* main(): `if ff.runs < 1 { panic!(..) }`.
MainPanicRuns ==
    /\ pc = "main"
    /\ MainRejects
    /\ pc' = "exited"
    /\ exit_code' = 101
    /\ UNCHANGED <<config, outputs, warm, warmups, submitted, queue, tstate, result,
                   chan, sx, rx, error_counter, pos, consumed, live, summary,
                   verdict>>

\* main() calls run(); run() creates the channel.
RunBegin ==
    /\ pc = "main"
    /\ ~MainRejects
    /\ sx' = TRUE
    /\ rx' = TRUE
    /\ pc' = "warmup"
    /\ UNCHANGED <<config, outputs, warm, warmups, submitted, queue, tstate, result,
                   chan, error_counter, pos, consumed, live, summary, verdict,
                   exit_code>>

\* The warm-up invocation completes; its Output is dropped; the pool is made.
WarmUp ==
    /\ pc = "warmup"
    /\ \E r \in Outcomes(0) :
        /\ warm' = IF r.ok THEN "passed" ELSE "failed"
        /\ outputs' = WarmUpKeeps(r, outputs)
    /\ warmups' = warmups + 1
    /\ pc' = "submit"
    /\ UNCHANGED <<config, submitted, queue, tstate, result, chan, sx, rx,
                   error_counter, pos, consumed, live, summary, verdict,
                   exit_code>>

\* The warm-up child cannot be spawned: expect() panics on the main thread.
WarmUpLaunchFail ==
    /\ pc = "warmup"
    /\ warm' = "nolaunch"
    /\ pc' = "exited"
    /\ exit_code' = 101
    /\ UNCHANGED <<config, outputs, warmups, submitted, queue, tstate, result, chan,
                   sx, rx, error_counter, pos, consumed, live, summary,
                   verdict>>

\* One iteration of `for _ in 0..runs`: clone sx, pool.execute(closure).
Submit ==
    /\ pc = "submit"
    /\ submitted < runs
    /\ submitted' = submitted + 1
    /\ queue' = Append(queue, submitted + 1)
    /\ tstate' = [tstate EXCEPT ![submitted + 1] = "queued"]
    /\ UNCHANGED <<config, outputs, pc, warm, warmups, result, chan, sx, rx,
                   error_counter, pos, consumed, live, summary, verdict,
                   exit_code>>

\* drop(sx) after the loop.
DropSx ==
    /\ pc = "submit"
    /\ submitted = runs
    /\ sx' = FALSE
    /\ pc' = "drain"
    /\ UNCHANGED <<config, outputs, warm, warmups, submitted, queue, tstate, result,
                   chan, rx, error_counter, pos, consumed, live, summary,
                   verdict, exit_code>>

\* A free pool thread takes the next job and spawns its child process.
Start(t) ==
    /\ ProcessAlive
    /\ queue # <<>>
    /\ t = Head(queue)
    /\ ThreadFree
    /\ queue' = Tail(queue)
    /\ tstate' = [tstate EXCEPT ![t] = "running"]
    /\ UNCHANGED <<config, outputs, pc, warm, warmups, submitted, result, chan, sx, rx,
                   error_counter, pos, consumed, live, summary, verdict,
                   exit_code>>

\* The child of a job cannot be spawned: expect() panics in the pool thread,
\* unwinding drops the job's sender, the pool replaces the thread.
LaunchFail(t) ==
    /\ ProcessAlive
    /\ queue # <<>>
    /\ t = Head(queue)
    /\ ThreadFree
    /\ queue' = Tail(queue)
    /\ tstate' = [tstate EXCEPT ![t] = "nolaunch"]
    /\ UNCHANGED <<config, outputs, pc, warm, warmups, submitted, result, chan, sx, rx,
                   error_counter, pos, consumed, live, summary, verdict,
                   exit_code>>

\* Mutant of Complete: the children are ended together with the program.
Complete_mut(t) ==
    /\ ProcessAlive
    /\ tstate[t] = "running"
    /\ \E r \in Outcomes(t) : result' = [result EXCEPT ![t] = r]
    /\ tstate' = [tstate EXCEPT ![t] = "ready"]
    /\ UNCHANGED <<config, outputs, pc, warm, warmups, submitted, queue, chan,
                   sx, rx, error_counter, pos, consumed, live, summary,
                   verdict, exit_code>>

\* The child of a job terminates with its Output, which output() hands to
\* the closure.  The child is a process of its own that the program never
\* kills: it terminates whether or not the program is still there.
Complete(t) ==
    /\ tstate[t] = "running"
    /\ \E r \in Outcomes(t) : result' = [result EXCEPT ![t] = r]
    /\ tstate' = [tstate EXCEPT ![t] = "ready"]
    /\ UNCHANGED <<config, outputs, pc, warm, warmups, submitted, queue, chan, sx, rx,
                   error_counter, pos, consumed, live, summary, verdict,
                   exit_code>>

\* sx.send(output) succeeds (it blocks while the buffer is full); the
\* closure ends and drops its sender.
SendOk(t) ==
    /\ ProcessAlive
    /\ tstate[t] = "ready"
    /\ rx
    /\ Len(chan) < Capacity
    /\ chan' = Append(chan, result[t])
    /\ tstate' = [tstate EXCEPT ![t] = "sent"]
    /\ UNCHANGED <<config, outputs, pc, warm, warmups, submitted, queue, result, sx,
                   rx, error_counter, pos, consumed, live, summary, verdict,
                   exit_code>>

\* sx.send(output) fails because the receiver is gone: expect() panics.
SendFail(t) ==
    /\ ProcessAlive
    /\ tstate[t] = "ready"
    /\ ~rx
    /\ tstate' = [tstate EXCEPT ![t] = "sendfail"]
    /\ UNCHANGED <<config, outputs, pc, warm, warmups, submitted, queue, result, chan,
                   sx, rx, error_counter, pos, consumed, live, summary,
                   verdict, exit_code>>

\* One iteration of `for recv_output in rx.iter().progress_with(pb)`.
Recv ==
    /\ pc = "drain"
    /\ chan # <<>>
    /\ LET r == Head(chan) IN
        /\ chan' = Tail(chan)
        /\ consumed' = Append(consumed, r)
        /\ pos' = pos + 1
        /\ IF ~Failing(r)
           THEN UNCHANGED <<error_counter, pc, rx, live, outputs>>
           ELSE /\ error_counter' = error_counter + 1
                /\ IF BreakOnFailure
                   THEN \* break
                        /\ pc' = "droprx"
                        /\ UNCHANGED <<rx, live, outputs>>
                   ELSE IF show_errors_as_summary
                   THEN /\ outputs' = Push(outputs, r)
                        /\ UNCHANGED <<pc, rx, live>>
                   ELSE IF ~r.out
                   THEN \* from_utf8(&stdout)? returns Err from run()
                        /\ pc' = "run_err"
                        /\ rx' = FALSE
                        /\ UNCHANGED <<live, outputs>>
                   ELSE IF ~r.err
                   THEN \* from_utf8(&stderr)? returns Err from run()
                        /\ live' = Append(live, LiveStdout(r))
                        /\ pc' = "run_err"
                        /\ rx' = FALSE
                        /\ UNCHANGED outputs
                   ELSE /\ live' = live \o <<LiveStdout(r), LiveStderr(r)>>
                        /\ outputs' = Push(outputs, r)
                        /\ UNCHANGED <<pc, rx>>
    /\ UNCHANGED <<config, warm, warmups, submitted, queue, tstate, result, sx,
                   summary, verdict, exit_code>>

\* rx.iter() returns None: the buffer is empty and every sender is dropped.
DrainEnd ==
    /\ pc = "drain"
    /\ chan = <<>>
    /\ Disconnected
    /\ pc' = "droprx"
    /\ UNCHANGED <<config, outputs, warm, warmups, submitted, queue, tstate, result,
                   chan, sx, rx, error_counter, pos, consumed, live, summary,
                   verdict, exit_code>>

\* drop(rx)
DropRx ==
    /\ pc = "droprx"
    /\ rx' = FALSE
    /\ pc' = "report"
    /\ UNCHANGED <<config, outputs, warm, warmups, submitted, queue, tstate, result,
                   chan, sx, error_counter, pos, consumed, live, summary,
                   verdict, exit_code>>

\* The end of run(): show_errors in summary mode, Ok(outputs.is_empty()).
Finalize ==
    /\ pc = "report"
    /\ summary' = show_errors(outputs)
    /\ verdict' = IF RunVerdict(outputs) THEN "true" ELSE "false"
    /\ pc' = "returned"
    /\ UNCHANGED <<config, outputs, warm, warmups, submitted, queue, tstate, result,
                   chan, sx, rx, error_counter, pos, consumed, live,
                   exit_code>>

\* main() after run() returned Ok(good).
MainExit ==
    /\ pc = "returned"
    /\ exit_code' = IF verdict = "true" THEN 0 ELSE 1
    /\ pc' = "exited"
    /\ UNCHANGED <<config, outputs, warm, warmups, submitted, queue, tstate, result,
                   chan, sx, rx, error_counter, pos, consumed, live, summary,
                   verdict>>

\* main() after run() returned Err: expect("Fail to processes.") panics.
MainExpectErr ==
    /\ pc = "run_err"
    /\ verdict' = "error"
    /\ exit_code' = 101
    /\ pc' = "exited"
    /\ UNCHANGED <<config, outputs, warm, warmups, submitted, queue, tstate, result,
                   chan, sx, rx, error_counter, pos, consumed, live, summary>>

Next ==
    \/ MainPanicRuns
    \/ RunBegin
    \/ WarmUp
    \/ WarmUpLaunchFail
    \/ Submit
    \/ DropSx
    \/ \E t \in Tasks : Start(t)
    \/ \E t \in Tasks : LaunchFail(t)
    \/ \E t \in Tasks : Complete(t)
    \/ \E t \in Tasks : SendOk(t)
    \/ \E t \in Tasks : SendFail(t)
    \/ Recv
    \/ DrainEnd
    \/ DropRx
    \/ Finalize
    \/ MainExit
    \/ MainExpectErr

Spec == Init /\ [][Next]_vars

\* The steps of the main thread.
MainThread ==
    \/ MainPanicRuns
    \/ RunBegin
    \/ WarmUp
    \/ WarmUpLaunchFail
    \/ Submit
    \/ DropSx
    \/ Recv
    \/ DrainEnd
    \/ DropRx
    \/ Finalize
    \/ MainExit
    \/ MainExpectErr

\* The steps of the pool threads.
PoolThreads ==
    \E t \in Tasks : Start(t) \/ LaunchFail(t) \/ SendOk(t) \/ SendFail(t)

\* The steps of the child processes.
Children == \E t \in Tasks : Complete(t)

\* The operating system runs every thread that can take a step, and every
\* child process terminates (no timeouts: a hung child hangs the run).
FairSpec ==
    /\ InitLive
    /\ [][Next]_vars
    /\ WF_vars(MainThread)
    /\ WF_vars(PoolThreads)
    /\ WF_vars(Children)

TypeOK ==
    /\ runs \in 0 .. MaxRuns
    /\ nb_threads \in 1 .. MaxThreads
    /\ Len(chan) <= runs
    /\ Cardinality(Active) <= nb_threads

----------------------------------------------------------------------------
\* Vocabulary of the properties.

Range(s) == {s[k] : k \in 1 .. Len(s)}

\* The aggregator has consumed a result with a failing exit status.
FailingConsumed == \E k \in 1 .. Len(consumed) : ~consumed[k].ok

\* Index of the first failing result consumed.
FirstFailing ==
    CHOOSE k \in 1 .. Len(consumed) :
        ~consumed[k].ok /\ \A j \in 1 .. (k - 1) : consumed[j].ok

\* run() returned Ok(_).
RunReturned == pc \in {"returned", "exited"} /\ verdict \in {"true", "false"}

\* A child process of the run could not be spawned.
LaunchFailed == warm = "nolaunch" \/ \E t \in Tasks : tstate[t] = "nolaunch"

\* Every job ran its child to completion and sent its Output.
AllSent == \A t \in Tasks : tstate[t] = "sent"

\* The aggregator left the loop by `break` (STOPPED_EARLY).
StoppedEarly == ~should_continue /\ FailingConsumed

\* The drain loop ended because rx.iter() was exhausted (DRAINED).
Drained ==
    /\ warm \in {"passed", "failed"}
    /\ pc \in {"droprx", "report", "returned", "exited"}
    /\ verdict # "error"
    /\ ~StoppedEarly

\* The failing results among s, in the order of s.
FailingOf(s) == SelectSeq(s, LAMBDA r : ~r.ok)

IsPrefix(s, t) == Len(s) <= Len(t) /\ s = SubSeq(t, 1, Len(s))

\* Position of the Output of job i in the sequence s (0 when absent).
IndexOf(s, i) ==
    IF \E k \in 1 .. Len(s) : s[k].id = i
    THEN CHOOSE k \in 1 .. Len(s) : s[k].id = i
    ELSE 0

----------------------------------------------------------------------------
\* C1: when the process has exited after run() was entered, the verdict is
\* success (run() returned true, exit code 0) exactly when the aggregator
\* consumed no result with a failing exit status.
C1_VerdictIffNoFailureConsumed ==
    (pc = "exited" /\ warm \in {"passed", "failed"}) =>
        ((verdict = "true" /\ exit_code = 0) <=> ~FailingConsumed)

\* C2: with stop-on-first-failure (should_continue false), once run() has
\* returned after consuming a failing result, failures holds exactly that
\* first failing result.
C2_StopOnFirstKeepsOneFailure ==
    (~should_continue /\ RunReturned /\ FailingConsumed) =>
        outputs = <<consumed[FirstFailing]>>

\* C3: when every invocation exits non-zero and should_continue is set, the
\* run ends with failures.length = runs and a failure verdict.
C3_AllFailAllRecorded ==
    (/\ pc = "exited"
     /\ should_continue
     /\ warm \in {"passed", "failed"}
     /\ ~LaunchFailed
     /\ \A t \in Tasks :
            tstate[t] \in {"ready", "sent", "sendfail"} => ~result[t].ok)
    => (Len(outputs) = runs /\ verdict = "false" /\ exit_code # 0)

\* C4: when every invocation exits 0, the run finalizes with failures empty
\* and a success verdict, and the process exits with code 0.
C4_AllPassSuccess ==
    (AllSent /\ runs > 0 /\ \A t \in Tasks : result[t].ok) =>
        /\ pc \notin {"run_err"}
        /\ outputs = <<>>
        /\ pc \in {"returned", "exited"} => verdict = "true"
        /\ pc = "exited" => exit_code = 0

C4_Witness ==
    /\ pc = "exited"
    /\ runs >= 2
    /\ AllSent
    /\ \A t \in Tasks : result[t].ok
    /\ verdict = "true"
    /\ exit_code = 0

\* C5: when an invocation could not be launched, the run never reports a
\* success verdict.
C5_LaunchFailureNeverSuccess ==
    LaunchFailed => (verdict # "true" /\ exit_code # 0)

\* C6: a failing invocation never makes run() end with an error, whatever
\* bytes it captured: run() returns a boolean and, when it has returned,
\* every failing result consumed is in failures.
C6_LogicalFailureIsData ==
    /\ pc # "run_err"
    /\ verdict # "error"
    /\ RunReturned =>
        \A k \in 1 .. Len(consumed) :
            ~consumed[k].ok => consumed[k] \in Range(outputs)

\* C7: with runs = 0 no process is ever spawned, neither the warm-up nor a
\* job: main() panics before run() is entered.
C7_ZeroRunsNoSpawn ==
    runs = 0 =>
        /\ warm = "none"
        /\ warmups = 0
        /\ submitted = 0
        /\ queue = <<>>
        /\ pc \in {"main", "exited"}
        /\ pc = "exited" => exit_code = 101

C7_Witness == runs = 0 /\ pc = "exited" /\ exit_code = 101 /\ warmups = 0

\* C8: exactly one warm-up invocation has completed before any job is
\* submitted or started, and the warm-up Output never reaches failures or
\* the verdict: failures holds only failing Outputs of jobs that the
\* aggregator consumed, and the verdict is `failures is empty`.
C8_WarmUpOnceAndDiscarded ==
    /\ warmups <= 1
    /\ (submitted > 0 \/ \E t \in Tasks : tstate[t] # "none") =>
            (warmups = 1 /\ warm \in {"passed", "failed"})
    /\ \A k \in 1 .. Len(outputs) :
            /\ outputs[k].id \in Tasks
            /\ outputs[k] \in Range(consumed)
            /\ outputs[k] = result[outputs[k].id]
    /\ RunReturned => (verdict = "true" <=> outputs = <<>>)

C8_Witness ==
    /\ warm = "failed"
    /\ warmups = 1
    /\ pc = "exited"
    /\ AllSent
    /\ runs >= 2
    /\ verdict = "true"
    /\ exit_code = 0

\* C9: when show_errors_as_summary is false, every failing result the
\* aggregator has consumed has had its stdout and stderr printed live by the
\* end of the loop iteration that consumed it.
C9_LiveBodiesOnConsume ==
    ~show_errors_as_summary =>
        \A k \in 1 .. Len(consumed) :
            ~consumed[k].ok =>
                /\ <<consumed[k].id, "stdout">> \in Range(live)
                /\ <<consumed[k].id, "stderr">> \in Range(live)

\* C10: in summary mode nothing is printed live, and once run() has returned
\* the reporter has printed stdout then stderr of every entry of failures,
\* once each, failures being in arrival order; nothing is printed by the
\* reporter before the drain loop has ended, and nothing at all when summary
\* mode is off.
C10_SummaryBodies ==
    /\ show_errors_as_summary => live = <<>>
    /\ ~RunReturned => summary = <<>>
    /\ ~show_errors_as_summary => summary = <<>>
    /\ (show_errors_as_summary /\ RunReturned) =>
        /\ Len(summary) = 2 * Len(outputs)
        /\ \A k \in 1 .. Len(outputs) :
            /\ summary[2 * k - 1] = <<outputs[k].id, "stdout">>
            /\ summary[2 * k] = <<outputs[k].id, "stderr">>
        /\ \A j, k \in 1 .. Len(outputs) :
            j < k => /\ IndexOf(consumed, outputs[j].id) > 0
                     /\ IndexOf(consumed, outputs[j].id)
                            < IndexOf(consumed, outputs[k].id)

C10_Witness ==
    /\ show_errors_as_summary
    /\ pc = "exited"
    /\ Len(outputs) >= 2
    /\ outputs[1].id > outputs[2].id
    /\ Len(summary) = 2 * Len(outputs)
\* C11: failures.length <= runs and the number of results consumed <= runs
\* in every state; with stop-on-first-failure failures.length <= 1 once the
\* loop has been left.
C11_FailuresBounded ==
    /\ Len(outputs) <= runs
    /\ Len(consumed) <= runs
    /\ (~should_continue /\ pc \in {"report", "returned", "exited"}) =>
            Len(outputs) <= 1

C11_Witness ==
    /\ should_continue
    /\ pc = "exited"
    /\ runs >= 2
    /\ Len(outputs) = runs
    /\ Len(consumed) = runs

\* C12: with stop-on-first-failure, once a failing result is consumed the
\* aggregator has left the loop and that result is the last one consumed;
\* from then on nothing is consumed and failures, the failure count and a
\* returned verdict do not change; a child that is running is never ended
\* by the program (it leaves `running` only by terminating), and every child
\* in flight at that moment terminates.
C12_StopEarlyDiscardsInFlight ==
    /\ [](StoppedEarly =>
            /\ pc \in {"droprx", "report", "returned", "exited"}
            /\ ~consumed[Len(consumed)].ok
            /\ \A k \in 1 .. (Len(consumed) - 1) : consumed[k].ok)
    /\ [][StoppedEarly =>
            /\ consumed' = consumed
            /\ outputs' = outputs
            /\ error_counter' = error_counter
            /\ verdict # "none" => verdict' = verdict]_vars
    /\ [][\A t \in Tasks :
            /\ tstate[t] = "running" => tstate'[t] \in {"running", "ready"}
            /\ (tstate[t] = "ready" /\ tstate'[t] # "ready") =>
                    /\ tstate'[t] \in {"sent", "sendfail"}
                    /\ consumed' = consumed
                    /\ outputs' = outputs]_vars
    /\ \A t \in 1 .. MaxRuns :
            (StoppedEarly /\ t \in Tasks /\ tstate[t] = "running")
                ~> (t \in Tasks /\ tstate[t] = "ready")

C12_Witness ==
    /\ StoppedEarly
    /\ pc = "exited"
    /\ Len(consumed) = 1
    /\ \E t \in Tasks : tstate[t] = "ready" /\ result[t] \notin Range(consumed)
    /\ outputs = <<>>

\* C13: when the drain loop has ended by exhaustion of the channel, the
\* aggregator has consumed exactly runs results.
C13_DrainedConsumedAll == Drained => Len(consumed) = runs

\* C14: between loop iterations and at finalize, error_counter equals
\* failures.length and both equal the number of failing results consumed.
C14_CounterMatchesFailures ==
    (pc \in {"drain", "droprx", "report", "returned"} \/ RunReturned) =>
        /\ error_counter = Len(outputs)
        /\ Len(outputs) = Len(FailingOf(consumed))

\* C15: never more than nb_threads jobs are in execution; the jobs handed
\* to the pool are exactly the `submitted` first ones, never more than runs,
\* and all runs of them once the submit loop is over.
C15_PoolBounded ==
    /\ Cardinality({t \in Tasks : tstate[t] \in {"running", "ready"}})
            <= nb_threads
    /\ submitted <= runs
    /\ {t \in Tasks : tstate[t] # "none"} = 1 .. submitted
    /\ (pc \in {"drain", "droprx", "report", "returned", "run_err"}
            \/ (pc = "exited" /\ verdict # "none")) => submitted = runs

C15_Witness ==
    /\ nb_threads >= 2
    /\ runs > nb_threads
    /\ Cardinality({t \in Tasks : tstate[t] = "running"}) = nb_threads
    /\ queue # <<>>
    /\ submitted = runs

\* C16: failures is, in order, a prefix of the failing results as the
\* aggregator received them (all of them when should_continue is set and
\* run() did not end in error), and every entry is the whole Output of one
\* job.
C16_FailuresInArrivalOrder ==
    /\ IsPrefix(outputs, FailingOf(consumed))
    /\ (should_continue /\ pc # "run_err" /\ verdict # "error") =>
            outputs = FailingOf(consumed)
    /\ \A k \in 1 .. Len(outputs) :
            /\ outputs[k].id \in Tasks
            /\ outputs[k] = result[outputs[k].id]

C16_Witness ==
    /\ ~show_errors_as_summary
    /\ Len(outputs) >= 2
    /\ outputs[1].id > outputs[2].id
    /\ outputs = FailingOf(consumed)

\* C17: a loop iteration that consumes a successful result changes only the
\* progress position (and the channel): error_counter, failures, the
\* aggregator's position and the printed output stay as they are; and
\* failures changes only in a loop iteration, by appending the result just
\* consumed.
C17_SuccessFrame ==
    /\ [][(Len(consumed') = Len(consumed) + 1
            /\ consumed'[Len(consumed')].ok) =>
                /\ pos' = pos + 1
                /\ error_counter' = error_counter
                /\ outputs' = outputs
                /\ pc' = pc
                /\ rx' = rx
                /\ live' = live
                /\ summary' = summary]_vars
    /\ [][outputs' # outputs =>
                /\ pc = "drain"
                /\ Len(consumed') = Len(consumed) + 1
                /\ outputs' = Append(outputs, consumed'[Len(consumed')])]_vars

C17_Witness ==
    /\ pc = "drain"
    /\ Len(consumed) >= 1
    /\ \A k \in 1 .. Len(consumed) : consumed[k].ok
    /\ pos = Len(consumed)
    /\ error_counter = 0
    /\ outputs = <<>>
    /\ live = <<>>

\* C18: when every child process terminates and every thread is scheduled,
\* the process started with runs > 0 eventually exits: run() finishes (or
\* main panics), whatever jobs panicked.
C18_RunTerminates == <>(pc = "exited")

C18_Witness ==
    /\ pc = "exited"
    /\ verdict \in {"true", "false"}
    /\ \E t \in Tasks : tstate[t] = "nolaunch"
    /\ \E t \in Tasks : tstate[t] = "sent"

\* C19: a send has failed only after a stop-on-first-failure break or an
\* error return of run(); the receiver is alive until the drain loop has
\* ended, and a loop that ended by exhaustion left no sender behind.
C19_SendFailsOnlyAfterEarlyExit ==
    /\ (\E t \in Tasks : tstate[t] = "sendfail") =>
            (StoppedEarly \/ pc = "run_err" \/ verdict = "error")
    /\ pc \in {"warmup", "submit", "drain", "droprx"} => rx
    /\ Drained =>
            /\ ~sx
            /\ \A t \in Tasks : tstate[t] \in {"sent", "nolaunch"}

C19_Witness ==
    /\ StoppedEarly
    /\ ~rx
    /\ pc # "exited"
    /\ \E t \in Tasks : tstate[t] = "sendfail"

\* C20: every job sends at most one result, the results sent are never more
\* than runs, the buffer never holds more than its capacity, and a job that
\* is about to send while the receiver lives finds a free slot.
C20_SendNeverBlocks ==
    /\ Len(chan) + Len(consumed)
            = Cardinality({t \in Tasks : tstate[t] = "sent"})
    /\ Len(chan) + Len(consumed) <= runs
    /\ \A j, k \in 1 .. Len(chan \o consumed) :
            j # k => (chan \o consumed)[j].id # (chan \o consumed)[k].id
    /\ Len(chan) <= runs
    /\ \A t \in Tasks : (tstate[t] = "ready" /\ rx) => Len(chan) < Capacity

C20_Witness ==
    /\ runs >= 2
    /\ Len(chan) = runs
    /\ consumed = <<>>
    /\ rx
====
